---- MODULE Spec2Model ----
(***************************************************************************)
(* Model of cmd/blockscopy/main.go: the blocks copier.  One process        *)
(* (main) runs copy cycles (runCopy -> copyBlocks); a cycle fans out over  *)
(* tenants and, per tenant, over blocks (concurrency.ForEachUser), copies  *)
(* the objects of each eligible block (copySingleBlock) and records a      *)
(* "copied" marker in the source bucket (uploadCopiedMarkerFile).          *)
(*                                                                         *)
(* File names that the program formats and parses (block ids, bucket       *)
(* names, marker names) are sequences of one-character strings; tenant ids *)
(* and the names of the objects inside a block are only compared and are   *)
(* plain strings.                                                          *)
(***************************************************************************)
EXTENDS Integers, Sequences, FiniteSets, TLC

\* ------------------------------------------------------------------ bounds

\* Copy cycles started, over all invocations of the program.
MaxCycles == 2
\* Adverse events (an I/O operation that fails, a signal), over the whole
\* behaviour.  Once the context is cancelled any operation may fail.
MaxFaults == 1

\* ------------------------------------------------- strings (Go's packages)

\* 0 when c does not occur in s, else the index (1-based) of its first occurrence
IndexOf(s, c) ==
  IF \E i \in 1..Len(s) : s[i] = c
  THEN CHOOSE i \in 1..Len(s) : s[i] = c /\ \A j \in 1..(i-1) : s[j] # c
  ELSE 0

\* strings.SplitN(s, sep, n) for a one-character separator and n > 0: at most
\* n parts, the last one the unsplit remainder.
RECURSIVE SplitN(_, _, _)
SplitN(s, sep, n) ==
  IF n <= 1 \/ IndexOf(s, sep) = 0
  THEN <<s>>
  ELSE <<SubSeq(s, 1, IndexOf(s, sep) - 1)>>
         \o SplitN(SubSeq(s, IndexOf(s, sep) + 1, Len(s)), sep, n - 1)

\* filepath.Base: trailing slashes removed, then the last path element;
\* "." for the empty path and "/" for a path of slashes only.
RECURSIVE TrimSlashes(_)
TrimSlashes(s) ==
  IF s # <<>> /\ s[Len(s)] = "/" THEN TrimSlashes(SubSeq(s, 1, Len(s) - 1)) ELSE s

RECURSIVE AfterLastSlash(_)
AfterLastSlash(s) ==
  IF IndexOf(s, "/") = 0 THEN s
  ELSE AfterLastSlash(SubSeq(s, IndexOf(s, "/") + 1, Len(s)))

Base(s) ==
  IF s = <<>> THEN <<".">>
  ELSE IF TrimSlashes(s) = <<>> THEN <<"/">>
  ELSE AfterLastSlash(TrimSlashes(s))

\* ---------------------------------------------------------- block ids (ulid)

\* Length of the text form of a block id.  The ulid package has 16 bytes in 26
\* characters; the model keeps the first byte, which takes the first two
\* characters (3 bits and 5 bits).
EncodedSize == 2

\* The alphabet of the text form (Crockford's base32), and the lower-case
\* letters that decode to the same values.
Encoding ==
  <<"0", "1", "2", "3", "4", "5", "6", "7", "8", "9", "A", "B", "C", "D", "E", "F",
    "G", "H", "J", "K", "M", "N", "P", "Q", "R", "S", "T", "V", "W", "X", "Y", "Z">>
LowerEncoding ==
  <<"0", "1", "2", "3", "4", "5", "6", "7", "8", "9", "a", "b", "c", "d", "e", "f",
    "g", "h", "j", "k", "m", "n", "p", "q", "r", "s", "t", "v", "w", "x", "y", "z">>

\* The decoding table of the ulid package, for the characters of the alphabet;
\* a character outside the alphabet decodes as 0xFF.
DecTable ==
  [c \in {Encoding[i] : i \in 1..Len(Encoding)} \cup
          {LowerEncoding[i] : i \in 1..Len(LowerEncoding)} |->
     (CHOOSE i \in 1..Len(Encoding) : Encoding[i] = c \/ LowerEncoding[i] = c) - 1]

Dec(c) == IF c \in DOMAIN DecTable THEN DecTable[c] ELSE 255

\* The characters c with c <= '7' as bytes: the digits up to 7 and the printable
\* characters before '0'.
UpToSeven ==
  {"0", "1", "2", "3", "4", "5", "6", "7",
   " ", "!", "\"", "#", "$", "%", "&", "'", "(", ")", "*", "+", ",", "-", ".", "/"}

\* a | b on bytes
RECURSIVE BitOr(_, _)
BitOr(a, b) ==
  IF a = 0 THEN b
  ELSE IF b = 0 THEN a
  ELSE (IF a % 2 = 1 \/ b % 2 = 1 THEN 1 ELSE 0) + 2 * BitOr(a \div 2, b \div 2)

\* ULID.String(): the text form of a block id (its first byte).
UlidString(id) == <<Encoding[(id \div 32) + 1], Encoding[(id % 32) + 1]>>

\* ulid.ParseStrict accepts a text: it has the encoded size, every character is
\* in the decoding table and the first one does not overflow.
UlidValid(s) ==
  /\ Len(s) = EncodedSize
  /\ \A i \in 1..Len(s) : Dec(s[i]) # 255
  /\ s[1] \in UpToSeven

\* ulid.Parse: the text must have the encoded size and must not overflow (first
\* character at most '7'); the characters are not validated, and a character
\* outside the alphabet decodes as 0xFF.  A block id is kept in its text form:
\* id is String() of the parsed value.
UlidParse(s) ==
  IF Len(s) = EncodedSize /\ s[1] \in UpToSeven
  THEN [ok |-> TRUE, id |-> UlidString(BitOr((Dec(s[1]) * 32) % 256, Dec(s[2])))]
  ELSE [ok |-> FALSE, id |-> <<>>]

\* ------------------------------------------------------------ marker names

MarkersPathname == <<"m", "a", "r", "k", "e", "r", "s">>
CopiedMarkFilename == <<"c", "o", "p", "i", "e", "d">>
DeletionMarkFilename ==
  <<"d", "e", "l", "e", "t", "i", "o", "n", "-", "m", "a", "r", "k", ".", "j", "s", "o", "n">>

\* CopiedToBucketMarkFilename: "markers/<id>-copied-<targetBucket>", relative to
\* the tenant.
CopiedToBucketMarkFilename(blockID, targetBucket) ==
  MarkersPathname \o <<"/">> \o blockID \o <<"-">> \o CopiedMarkFilename
    \o <<"-">> \o targetBucket

\* A wrong parser: the name is cut at every dash, so a bucket name with a dash
\* is not recovered.
IsCopiedToBucketMarkFilenameSplitAll(name) ==
  LET parts == SplitN(name, "-", Len(name) + 1) IN
  IF Len(parts) # 3 THEN [ok |-> FALSE, id |-> <<>>, bucket |-> <<>>]
  ELSE IF parts[2] # CopiedMarkFilename THEN [ok |-> FALSE, id |-> <<>>, bucket |-> <<>>]
  ELSE IF ~UlidParse(Base(parts[1])).ok THEN [ok |-> FALSE, id |-> <<>>, bucket |-> <<>>]
  ELSE [ok |-> TRUE, id |-> UlidParse(Base(parts[1])).id, bucket |-> parts[3]]

\* IsCopiedToBucketMarkFilename: (ok, id, targetBucket)
IsCopiedToBucketMarkFilename(name) ==
  LET parts == SplitN(name, "-", 3) IN
  IF Len(parts) # 3 THEN [ok |-> FALSE, id |-> <<>>, bucket |-> <<>>]
  ELSE IF parts[2] # CopiedMarkFilename THEN [ok |-> FALSE, id |-> <<>>, bucket |-> <<>>]
  ELSE IF ~UlidParse(Base(parts[1])).ok THEN [ok |-> FALSE, id |-> <<>>, bucket |-> <<>>]
  ELSE [ok |-> TRUE, id |-> UlidParse(Base(parts[1])).id, bucket |-> parts[3]]

\* bucketindex.IsBlockDeletionMarkFilename: "<id>-deletion-mark.json"
IsBlockDeletionMarkFilename(name) ==
  LET parts == SplitN(name, "-", 2) IN
  IF Len(parts) # 2 THEN [ok |-> FALSE, id |-> <<>>]
  ELSE IF parts[2] # DeletionMarkFilename THEN [ok |-> FALSE, id |-> <<>>]
  ELSE UlidParse(Base(parts[1]))

\* The name under which listPrefix(tenant/markers) returns an object written at
\* tenant/<path>: the part after "markers/".
\* (listPrefix trims the prefix it listed.)
TrimMarkersPrefix(path) ==
  SubSeq(path, Len(MarkersPathname) + 2, Len(path))

\* ------------------------------------------------------- the source bucket

\* Tenants, in the order listTenants returns them.
TenantList == <<"a", "b", "c">>
Tenants == {TenantList[i] : i \in 1..Len(TenantList)}

\* Users that the -enabled-users and -disabled-users flags may name.
Users == Tenants

Block1 == <<"0", "1">>
Block2 == <<"0", "2">>
Block3 == <<"0", "3">>

\* Block directories of a tenant, in the order listBlocksForTenant returns them.
BlocksOf(t) ==
  IF t = "a" THEN <<Block1, Block2>> ELSE IF t = "b" THEN <<Block3>> ELSE <<>>

BlockIDs == {Block1, Block2, Block3}
TenantOf(b) == CHOOSE t \in Tenants : \E i \in 1..Len(BlocksOf(t)) : BlocksOf(t)[i] = b

MetaFilename == "meta.json"

Range(s) == {s[i] : i \in 1..Len(s)}

\* What listPrefix returns for a block: the paths of its objects relative to the
\* block, in the order of the bucket's listing (by name).  Blocks are immutable.
ListingOf(b) ==
  IF b = Block1 THEN <<"chunks/000001", "chunks/000002", "index", MetaFilename, "tombstones">>
  ELSE IF b = Block2 THEN <<"chunks/000001", "index", MetaFilename>>
  ELSE <<"index", MetaFilename>>

\* Objects of a block.
ObjectsOf(b) == Range(ListingOf(b))

\* maxTime - minTime of the block's meta.json, in units of the duration flag.
DurationOf(b) == IF b = Block1 THEN 2 ELSE IF b = Block2 THEN 1 ELSE 3

\* Bucket names.
DestBucket == <<"d", "-", "1">>
OtherBucket == <<"d">>

\* All orders in which a listing may return the members of S.
Orders(S) ==
  {f \in [1..Cardinality(S) -> S] : \A i, j \in 1..Cardinality(S) : f[i] = f[j] => i = j}

\* Marker objects that may exist for the blocks of tenant t before the program
\* first runs: deletion marks and copy marks (to this or another bucket) left by
\* earlier runs or by other components.
DeletionMarkName(b) == b \o <<"-">> \o DeletionMarkFilename
CopiedMarkName(b, bucket) == TrimMarkersPrefix(CopiedToBucketMarkFilename(b, bucket))

\* ------------------------------------------------------------ pure functions

\* Membership of the enabled list decides alone.
isAllowedUserEnabledWins(enabled, disabled, tenantID) ==
  IF enabled # {} THEN tenantID \in enabled
  ELSE IF disabled # {} /\ tenantID \in disabled THEN FALSE
  ELSE TRUE

\* isAllowedUser(enabled, disabled, tenantID)
isAllowedUser(enabled, disabled, tenantID) ==
  IF enabled # {} /\ tenantID \notin enabled THEN FALSE
  ELSE IF disabled # {} /\ tenantID \in disabled THEN FALSE
  ELSE TRUE

\* s without its element at (1-based) position i
RemoveAt(s, i) == SubSeq(s, 1, i - 1) \o SubSeq(s, i + 1, Len(s))

\* The loop of copySingleBlock that moves meta.json to the end; ix is the loop
\* variable (0-based, as in the code).  When the element at ix is moved, the
\* for statement's ix++ follows; otherwise the else branch's ix++ and the for
\* statement's ix++ both run.
RECURSIVE ReorderLoop(_, _)
ReorderLoop(paths, ix) ==
  IF ix >= Len(paths) THEN paths
  ELSE IF paths[ix + 1] = MetaFilename /\ ix < Len(paths) - 1
       THEN ReorderLoop(RemoveAt(paths, ix + 1) \o <<MetaFilename>>, ix + 1)
       ELSE ReorderLoop(paths, ix + 2)

\* The order in which copySingleBlock copies a listing.
ReorderPaths(paths) == ReorderLoop(paths, 0)

\* blockMarkers{} and the map of listBlockMarkersForTenant: a missing key reads
\* as the zero value.
ZeroMarkers == [deletion |-> FALSE, copied |-> FALSE]
MarkersGet(m, id) == IF id \in DOMAIN m THEN m[id] ELSE ZeroMarkers
MarkersPut(m, id, v) == [x \in (DOMAIN m) \cup {id} |-> IF x = id THEN v ELSE m[x]]

\* A copy marker counts whatever bucket it names.
MarkersStepAnyBucket(result, m, destinationBucket) ==
  LET d == IsBlockDeletionMarkFilename(m)
      r1 == IF d.ok
            THEN MarkersPut(result, d.id, [MarkersGet(result, d.id) EXCEPT !.deletion = TRUE])
            ELSE result
      c == IsCopiedToBucketMarkFilename(m)
  IN IF c.ok
     THEN MarkersPut(r1, c.id, [MarkersGet(r1, c.id) EXCEPT !.copied = TRUE])
     ELSE r1

\* One iteration of the loop of listBlockMarkersForTenant over marker name m.
MarkersStep(result, m, destinationBucket) ==
  LET d == IsBlockDeletionMarkFilename(m)
      r1 == IF d.ok
            THEN MarkersPut(result, d.id, [MarkersGet(result, d.id) EXCEPT !.deletion = TRUE])
            ELSE result
      c == IsCopiedToBucketMarkFilename(m)
  IN IF c.ok /\ c.bucket = destinationBucket
     THEN MarkersPut(r1, c.id, [MarkersGet(r1, c.id) EXCEPT !.copied = TRUE])
     ELSE r1

RECURSIVE MarkersFold(_, _, _)
MarkersFold(listing, destinationBucket, result) ==
  IF listing = <<>> THEN result
  ELSE MarkersFold(Tail(listing), destinationBucket,
                   MarkersStep(result, Head(listing), destinationBucket))

\* listBlockMarkersForTenant, given the listing of tenant/markers
listBlockMarkersForTenant(listing, destinationBucket) ==
  MarkersFold(listing, destinationBucket, <<>>)

\* -------------------------------------------------------------------- state

\* -tenant-concurrency and -block-concurrency
TenantConcurrency == 2
BlocksConcurrency == 2

\* -min-block-duration, when it is set (in the units of DurationOf)
MinDuration == 2

VARIABLES
  cfg,         \* the flags: dryRun, minBlockDuration, copyPeriod, enabledUsers,
               \* disabledUsers, destBucket
  mainPc,      \* where main is: "first" (runCopy of line 120), "loop" (the for
               \* condition), "select", "tickrun" (runCopy of line 134), "exit0",
               \* "exit1", "stopped" (main returned)
  ctxDone,     \* ctx.Err() != nil: SIGINT or SIGTERM was received
  tick,        \* a tick waits in t.C
  cyc,         \* where copyBlocks is: "idle", "start", "fanout"
  tq,          \* tenants not yet taken by a worker of the outer ForEachUser
  tst,         \* per tenant, its unit: "idle", "queued", "blocks" (the inner
               \* ForEachUser runs), "excluded", "ok", "listBlocksErr",
               \* "listMarkersErr", "blocksErr"
  mk,          \* per tenant, the map returned by listBlockMarkersForTenant
  bq,          \* per tenant, block ids not yet taken by an inner worker
  bst,         \* per block, its unit: pc ("idle", "queued", "list", "copy", "mark",
               \* "done"), paths (the reordered listing), ix (next path to copy),
               \* out (how the unit ended), meta (how the call of
               \* loadMetaJSONFile went: "none" when it was not called, "ok",
               \* "readErr", "closeErr")
  srcMarkers,  \* per tenant, the names of the objects under tenant/markers
  dst,         \* the destination bucket: <<tenant, block, path>> of its objects
  result,      \* the error the last copyBlocks returned: "nil", "client" (failed
               \* to create client), "tenants" (failed to list tenants), "ctx"
               \* (ctx.Err()), "units" (the errors ForEachUser collected); "none"
               \* while the cycle runs
  prev,        \* per block, out of the cycle before this one
  ncycles,     \* cycles started so far
  faults       \* failed operations so far

vars == <<cfg, mainPc, ctxDone, tick, cyc, tq, tst, mk, bq, bst, srcMarkers, dst,
          result, prev, ncycles, faults>>

Min(a, b) == IF a < b THEN a ELSE b

IdleBlock == [pc |-> "idle", paths |-> <<>>, ix |-> 1, out |-> "none", meta |-> "none"]

ErrOuts == {"metaErr", "listErr", "copyErr", "markErr"}
TenantErrs == {"listBlocksErr", "listMarkersErr", "blocksErr"}
RunningPcs == {"list", "copy", "mark"}

BlockSet(t) == {BlocksOf(t)[i] : i \in 1..Len(BlocksOf(t))}

\* An operation may fail while the fault budget lasts, and at any time once the
\* context is cancelled.
CanFail == ctxDone \/ faults < MaxFaults
Failed == faults' = IF ctxDone THEN faults ELSE faults + 1

\* Objects of block b copied by the current cycle, in copy order.
CopiedNow(b) == SubSeq(bst[b].paths, 1, bst[b].ix - 1)

\* ----------------------------------------------------------------- main

\* A cycle begins: main calls runCopy, which calls copyBlocks.
BeginCycle ==
  /\ cyc' = "start"
  /\ result' = "none"
  /\ prev' = [b \in BlockIDs |-> bst[b].out]
  /\ bst' = [b \in BlockIDs |-> IdleBlock]
  /\ tst' = [t \in Tenants |-> "idle"]
  /\ tq' = <<>>
  /\ mk' = [t \in Tenants |-> <<>>]
  /\ bq' = [t \in Tenants |-> <<>>]
  /\ ncycles' = ncycles + 1

\* A main that runs once only when the period is exactly zero.
RunCopyReturnsZeroPeriod(err) ==
  /\ cyc' = "idle"
  /\ result' = err
  /\ mainPc' = IF mainPc = "first" /\ cfg.copyPeriod = 0
               THEN (IF err = "nil" THEN "exit0" ELSE "exit1")
               ELSE "loop"

\* A main that exits when a cycle fails.
RunCopyReturnsExitOnError(err) ==
  /\ cyc' = "idle"
  /\ result' = err
  /\ mainPc' = IF err # "nil" THEN "exit1"
               ELSE IF mainPc = "first" /\ cfg.copyPeriod <= 0 THEN "exit0"
               ELSE "loop"

\* copyBlocks returns and runCopy with it; main goes on after the call: after the
\* first cycle it exits when no period is set, and else enters the loop.
RunCopyReturns(err) ==
  /\ cyc' = "idle"
  /\ result' = err
  /\ mainPc' = IF mainPc = "first" /\ cfg.copyPeriod <= 0
               THEN (IF err = "nil" THEN "exit0" ELSE "exit1")
               ELSE "loop"

\* ------------------------------------------------- concurrency.ForEachUser

\* A ForEachUser that stops taking jobs after the first error.
ForEachUserTakesUntilError(jobs, running, workers, failed) ==
  jobs # <<>> /\ running < workers /\ ~ctxDone /\ ~failed

\* Whether a worker of ForEachUser takes the next job and runs the function on
\* it: a job is left, a worker is free and the context is not cancelled.  That
\* an earlier job failed (failed) plays no part.
ForEachUserTakes(jobs, running, workers, failed) ==
  jobs # <<>> /\ running < workers /\ ~ctxDone

\* ForEachUser returns when its workers are done: none runs a job and none
\* would take one.
ForEachUserDone(jobs, running, workers, failed) ==
  running = 0 /\ ~ForEachUserTakes(jobs, 0, workers, failed)

\* A ForEachUser that drops the errors of its jobs.
ForEachUserResultNoErrors(failed) ==
  IF ctxDone THEN "ctx" ELSE "nil"

\* What ForEachUser returns: ctx.Err() when the context is cancelled, else the
\* errors of the jobs that failed, if any.
ForEachUserResult(failed) ==
  IF ctxDone THEN "ctx" ELSE IF failed THEN "units" ELSE "nil"

\* ------------------------------------------------------------- copyBlocks

\* copyBlocks up to the outer ForEachUser: the client is created and the tenants
\* are listed; either may fail, and copyBlocks then returns the error.
CopyBlocksStart ==
  /\ cyc = "start"
  /\ \/ /\ CanFail                       \* storage.NewClient fails
        /\ Failed
        /\ RunCopyReturns("client")
        /\ UNCHANGED <<tq, tst>>
     \/ /\ CanFail                       \* listTenants fails
        /\ Failed
        /\ RunCopyReturns("tenants")
        /\ UNCHANGED <<tq, tst>>
     \/ /\ cyc' = "fanout"
        /\ tq' = TenantList
        /\ tst' = [t \in Tenants |-> "queued"]
        /\ UNCHANGED <<faults, result, mainPc>>
  /\ UNCHANGED <<cfg, ctxDone, tick, mk, bq, bst, srcMarkers, dst, prev, ncycles>>

\* Jobs a ForEachUser runs at once: min(concurrency, number of jobs) workers.
TenantWorkers == Min(TenantConcurrency, Len(TenantList))
BlockWorkers(t) == Min(BlocksConcurrency, Len(BlocksOf(t)))

RunningTenants == {t \in Tenants : tst[t] = "blocks"}
RunningBlocks(t) == {b \in BlockSet(t) : bst[b].pc \in RunningPcs}

\* Only the error of the inner ForEachUser counts as an error of the tenant
\* function.
TenantFailedBlocksOnly == \E t \in Tenants : tst[t] = "blocksErr"

\* A tenant function, or a block function, returned an error.
TenantFailed == \E t \in Tenants : tst[t] \in TenantErrs
BlockFailed(t) == \E b \in BlockSet(t) : bst[b].out \in ErrOuts

\* A worker of the outer ForEachUser takes the next tenant (the context is not
\* cancelled) and runs the tenant function up to the inner ForEachUser.
TenantStart(t) ==
  /\ cyc = "fanout"
  /\ ForEachUserTakes(tq, Cardinality(RunningTenants), TenantWorkers, TenantFailed)
  /\ t = Head(tq)
  /\ tq' = Tail(tq)
  /\ IF ~isAllowedUser(cfg.enabledUsers, cfg.disabledUsers, t)
     THEN /\ tst' = [tst EXCEPT ![t] = "excluded"]
          /\ UNCHANGED <<mk, bq, bst, faults>>
     ELSE
     \/ /\ CanFail                       \* listBlocksForTenant fails
        /\ Failed
        /\ tst' = [tst EXCEPT ![t] = "listBlocksErr"]
        /\ UNCHANGED <<mk, bq, bst>>
     \/ /\ CanFail                       \* listBlockMarkersForTenant fails
        /\ Failed
        /\ tst' = [tst EXCEPT ![t] = "listMarkersErr"]
        /\ UNCHANGED <<mk, bq, bst>>
     \/ /\ \E listing \in Orders(srcMarkers[t]) :
             mk' = [mk EXCEPT ![t] = listBlockMarkersForTenant(listing, cfg.destBucket)]
        /\ bq' = [bq EXCEPT ![t] = BlocksOf(t)]
        /\ bst' = [b \in BlockIDs |->
                     IF b \in BlockSet(t) THEN [IdleBlock EXCEPT !.pc = "queued"] ELSE bst[b]]
        \* ForEachUser returns nil at once when there are no jobs
        /\ tst' = [tst EXCEPT ![t] = IF BlocksOf(t) = <<>> THEN "ok" ELSE "blocks"]
        /\ UNCHANGED faults
  /\ UNCHANGED <<cfg, mainPc, ctxDone, tick, cyc, srcMarkers, dst, result, prev, ncycles>>

\* The block unit ends with outcome o.
BlockDone(b, o) == bst' = [bst EXCEPT ![b].pc = "done", ![b].out = o]

\* loadMetaJSONFile for block b when the read goes the way of how: "ok",
\* "readErr" (NewReader or Decode fails) or "closeErr" (only Close fails: the
\* code wraps the nil decode error, and errors.Wrapf of nil is nil, so the zero
\* Meta is returned with no error).
loadMetaJSONFile(b, how) ==
  IF how = "ok" THEN [err |-> FALSE, duration |-> DurationOf(b)]
  ELSE IF how = "readErr" THEN [err |-> TRUE, duration |-> 0]
  ELSE [err |-> FALSE, duration |-> 0]

\* Whether the block function reads meta.json: it does when no marker check
\* returned before and a minimum duration is set.
ReadsMeta(bm, c) == ~bm.copied /\ ~bm.deletion /\ c.minBlockDuration > 0

\* The deletion check before the copied check.
BlockDecisionDeletionFirst(bm, c, meta) ==
  IF bm.deletion THEN "deletion"
  ELSE IF bm.copied THEN "copied"
  ELSE IF c.minBlockDuration > 0 /\ meta.err THEN "metaErr"
  ELSE IF c.minBlockDuration > 0 /\ meta.duration < c.minBlockDuration THEN "short"
  ELSE IF c.dryRun THEN "dry"
  ELSE "copy"

\* The dry-run check left out.
BlockDecisionNoDryRun(bm, c, meta) ==
  IF bm.copied THEN "copied"
  ELSE IF bm.deletion THEN "deletion"
  ELSE IF c.minBlockDuration > 0 /\ meta.err THEN "metaErr"
  ELSE IF c.minBlockDuration > 0 /\ meta.duration < c.minBlockDuration THEN "short"
  ELSE "copy"

\* The block function of copyBlocks from the marker checks to the dry-run check:
\* how the unit ends there, or "copy" when it goes on to copySingleBlock.  bm is
\* markers[blockID], c the flags, meta what loadMetaJSONFile returns.
BlockDecision(bm, c, meta) ==
  IF bm.copied THEN "copied"
  ELSE IF bm.deletion THEN "deletion"
  ELSE IF c.minBlockDuration > 0 /\ meta.err THEN "metaErr"
  ELSE IF c.minBlockDuration > 0 /\ meta.duration < c.minBlockDuration THEN "short"
  ELSE IF c.dryRun THEN "dry"
  ELSE "copy"

\* A worker of the inner ForEachUser takes the next block of tenant t (the
\* context is not cancelled) and runs the block function up to the call of
\* copySingleBlock.
BlockStart(t, b) ==
  /\ tst[t] = "blocks"
  /\ ForEachUserTakes(bq[t], Cardinality(RunningBlocks(t)), BlockWorkers(t), BlockFailed(t))
  /\ b = Head(bq[t])
  /\ bq' = [bq EXCEPT ![t] = Tail(bq[t])]
  /\ \E how \in {"ok", "readErr", "closeErr"} :
       LET bm == MarkersGet(mk[t], UlidParse(b).id)
           d == BlockDecision(bm, cfg, loadMetaJSONFile(b, how))
       IN /\ how # "ok" => ReadsMeta(bm, cfg) /\ CanFail
          /\ IF how # "ok" THEN Failed ELSE UNCHANGED faults
          /\ bst' = [bst EXCEPT ![b].pc = IF d = "copy" THEN "list" ELSE "done",
                                ![b].out = IF d = "copy" THEN "none" ELSE d,
                                ![b].meta = IF ReadsMeta(bm, cfg) THEN how ELSE "none"]
  /\ UNCHANGED <<cfg, mainPc, ctxDone, tick, cyc, tq, tst, mk, srcMarkers, dst, result,
                 prev, ncycles>>

\* ---------------------------------------------------------- copySingleBlock

\* copySingleBlock lists the block and reorders the listing; a failed listing
\* ends the unit.
CopyList(b) ==
  /\ bst[b].pc = "list"
  /\ \/ /\ CanFail
        /\ Failed
        /\ BlockDone(b, "listErr")
     \/ /\ bst' = [bst EXCEPT ![b].paths = ReorderPaths(ListingOf(b)),
                                ![b].ix = 1,
                                ![b].pc = IF ListingOf(b) = <<>> THEN "mark" ELSE "copy"]
        /\ UNCHANGED faults
  /\ UNCHANGED <<cfg, mainPc, ctxDone, tick, cyc, tq, tst, mk, bq, srcMarkers, dst, result,
                 prev, ncycles>>

\* A copy loop that notes the error of a failed copy and goes on with the
\* objects that follow.
CopyObjectGoesOn(b) ==
  /\ bst[b].pc = "copy"
  /\ LET last == bst[b].ix = Len(bst[b].paths) IN
     \/ /\ CanFail
        /\ Failed
        /\ bst' = [bst EXCEPT ![b].out = "copyErr",
                              ![b].ix = @ + 1,
                              ![b].pc = IF last THEN "done" ELSE "copy"]
        /\ UNCHANGED dst
     \/ /\ dst' = dst \cup {<<TenantOf(b), b, bst[b].paths[bst[b].ix]>>}
        /\ bst' = [bst EXCEPT ![b].ix = @ + 1,
                              ![b].pc = IF ~last THEN "copy"
                                        ELSE IF bst[b].out = "copyErr" THEN "done"
                                        ELSE "mark"]
        /\ UNCHANGED faults
  /\ UNCHANGED <<cfg, mainPc, ctxDone, tick, cyc, tq, tst, mk, bq, srcMarkers, result,
                 prev, ncycles>>

\* One iteration of the copy loop: the next path is copied to the same path of
\* the destination, or the copy fails and copySingleBlock returns the error.
\* After the last path copySingleBlock returns nil.
CopyObject(b) ==
  /\ bst[b].pc = "copy"
  /\ \/ /\ CanFail
        /\ Failed
        /\ BlockDone(b, "copyErr")
        /\ UNCHANGED dst
     \/ /\ dst' = dst \cup {<<TenantOf(b), b, bst[b].paths[bst[b].ix]>>}
        /\ bst' = [bst EXCEPT ![b].ix = @ + 1,
                              ![b].pc = IF bst[b].ix = Len(bst[b].paths)
                                        THEN "mark" ELSE "copy"]
        /\ UNCHANGED faults
  /\ UNCHANGED <<cfg, mainPc, ctxDone, tick, cyc, tq, tst, mk, bq, srcMarkers, result,
                 prev, ncycles>>

\* The error of the marker write is dropped: the unit ends without error and
\* without marker.
uploadCopiedMarkerFileErrorDropped(b) ==
  /\ bst[b].pc = "mark"
  /\ \/ /\ CanFail
        /\ Failed
        /\ BlockDone(b, "ok")
        /\ UNCHANGED srcMarkers
     \/ /\ srcMarkers' =
             [srcMarkers EXCEPT ![TenantOf(b)] =
                @ \cup {TrimMarkersPrefix(CopiedToBucketMarkFilename(UlidParse(b).id,
                                                                       cfg.destBucket))}]
        /\ BlockDone(b, "ok")
        /\ UNCHANGED faults
  /\ UNCHANGED <<cfg, mainPc, ctxDone, tick, cyc, tq, tst, mk, bq, dst, result, prev,
                 ncycles>>

\* The marker write replaces the marker objects of the tenant.
uploadCopiedMarkerFileReplacing(b) ==
  /\ bst[b].pc = "mark"
  /\ \/ /\ CanFail
        /\ Failed
        /\ BlockDone(b, "markErr")
        /\ UNCHANGED srcMarkers
     \/ /\ srcMarkers' =
             [srcMarkers EXCEPT ![TenantOf(b)] =
                {TrimMarkersPrefix(CopiedToBucketMarkFilename(UlidParse(b).id,
                                                              cfg.destBucket))}]
        /\ BlockDone(b, "ok")
        /\ UNCHANGED faults
  /\ UNCHANGED <<cfg, mainPc, ctxDone, tick, cyc, tq, tst, mk, bq, dst, result, prev,
                 ncycles>>

\* uploadCopiedMarkerFile: an empty object tenant/markers/<id>-copied-<bucket>
\* is written to the source bucket, or the write fails.
uploadCopiedMarkerFile(b) ==
  /\ bst[b].pc = "mark"
  /\ \/ /\ CanFail
        /\ Failed
        /\ BlockDone(b, "markErr")
        /\ UNCHANGED srcMarkers
     \/ /\ srcMarkers' =
             [srcMarkers EXCEPT ![TenantOf(b)] =
                @ \cup {TrimMarkersPrefix(CopiedToBucketMarkFilename(UlidParse(b).id,
                                                                       cfg.destBucket))}]
        /\ BlockDone(b, "ok")
        /\ UNCHANGED faults
  /\ UNCHANGED <<cfg, mainPc, ctxDone, tick, cyc, tq, tst, mk, bq, dst, result, prev,
                 ncycles>>

\* The inner ForEachUser returns once its workers are done: no block is being
\* processed and no job is left, or the context is cancelled (a worker that
\* takes a job then stops).  The tenant function returns what it returns.
TenantFinish(t) ==
  /\ tst[t] = "blocks"
  /\ ForEachUserDone(bq[t], Cardinality(RunningBlocks(t)), BlockWorkers(t), BlockFailed(t))
  /\ tst' = [tst EXCEPT ![t] =
               IF ForEachUserResult(BlockFailed(t)) = "nil" THEN "ok" ELSE "blocksErr"]
  /\ UNCHANGED <<cfg, mainPc, ctxDone, tick, cyc, tq, mk, bq, bst, srcMarkers, dst, result,
                 prev, ncycles, faults>>

\* The outer ForEachUser returns in the same way, and copyBlocks with it.
CopyBlocksFinish ==
  /\ cyc = "fanout"
  /\ ForEachUserDone(tq, Cardinality(RunningTenants), TenantWorkers, TenantFailed)
  /\ RunCopyReturns(ForEachUserResult(TenantFailed))
  /\ UNCHANGED <<cfg, ctxDone, tick, tq, tst, mk, bq, bst, srcMarkers, dst, prev, ncycles,
                 faults>>

\* --------------------------------------------------------------------- main

\* SIGINT or SIGTERM: the context of signal.NotifyContext is cancelled.
Cancel ==
  /\ mainPc \notin {"exit0", "exit1", "stopped"}
  /\ ~ctxDone
  /\ faults < MaxFaults
  /\ faults' = faults + 1
  /\ ctxDone' = TRUE
  /\ UNCHANGED <<cfg, mainPc, tick, cyc, tq, tst, mk, bq, bst, srcMarkers, dst, result,
                 prev, ncycles>>

\* The ticker of line 128 fires: t.C holds at most one tick.  A tick that fires
\* while a cycle runs is seen by main only after the cycle, so it is modelled as
\* firing then.
TickFire ==
  /\ mainPc \in {"loop", "select"}
  /\ ~tick
  /\ tick' = TRUE
  /\ UNCHANGED <<cfg, mainPc, ctxDone, cyc, tq, tst, mk, bq, bst, srcMarkers, dst, result,
                 prev, ncycles, faults>>

\* for ctx.Err() == nil
LoopCheck ==
  /\ mainPc = "loop"
  /\ mainPc' = IF ctxDone THEN "stopped" ELSE "select"
  /\ UNCHANGED <<cfg, ctxDone, tick, cyc, tq, tst, mk, bq, bst, srcMarkers, dst, result,
                 prev, ncycles, faults>>

\* case <-t.C: a cycle is run.  With both channels ready select takes either.
SelectTick ==
  /\ mainPc = "select"
  /\ tick
  /\ ncycles < MaxCycles
  /\ tick' = FALSE
  /\ mainPc' = "tickrun"
  /\ BeginCycle
  /\ UNCHANGED <<cfg, ctxDone, srcMarkers, dst, faults>>

\* case <-ctx.Done()
SelectDone ==
  /\ mainPc = "select"
  /\ ctxDone
  /\ mainPc' = "loop"
  /\ UNCHANGED <<cfg, ctxDone, tick, cyc, tq, tst, mk, bq, bst, srcMarkers, dst, result,
                 prev, ncycles, faults>>

\* The program is run again after it exited on its own, with the same flags
\* except, possibly, -dry-run: main from its first line to the first runCopy.
Restart ==
  /\ mainPc \in {"exit0", "exit1"}
  /\ ~ctxDone
  /\ ncycles < MaxCycles
  /\ \E d \in BOOLEAN : cfg' = [cfg EXCEPT !.dryRun = d]
  /\ ctxDone' = FALSE
  /\ tick' = FALSE
  /\ mainPc' = "first"
  /\ BeginCycle
  /\ UNCHANGED <<srcMarkers, dst, faults>>

\* ------------------------------------------------------------ specification

\* The flags of -enabled-users/-disabled-users, -dry-run, -min-block-duration
\* and -copy-period (0 or less: run once).
Flags(enabled, disabled, dry, mins, periods) ==
  [dryRun : dry, minBlockDuration : mins, copyPeriod : periods,
   enabledUsers : enabled, disabledUsers : disabled, destBucket : {DestBucket}]

\* main starts with flags c on a source bucket whose marker objects are m and an
\* empty destination bucket.
InitWith(c, m) ==
  /\ cfg = c
  /\ srcMarkers = m
  /\ mainPc = "first"
  /\ ctxDone = FALSE
  /\ tick = FALSE
  /\ cyc = "start"
  /\ tq = <<>>
  /\ tst = [t \in Tenants |-> "idle"]
  /\ mk = [t \in Tenants |-> <<>>]
  /\ bq = [t \in Tenants |-> <<>>]
  /\ bst = [b \in BlockIDs |-> IdleBlock]
  /\ dst = {}
  /\ result = "none"
  /\ prev = [b \in BlockIDs |-> "none"]
  /\ ncycles = 1
  /\ faults = 0

NoMarkers == [t \in Tenants |-> {}]

\* Marker objects that a block may have before the program first runs: a
\* deletion mark, a copy mark for the destination bucket, a copy mark for another
\* bucket, and both kinds together.
MarkerStates(b) ==
  {{}, {DeletionMarkName(b)}, {CopiedMarkName(b, DestBucket)},
   {CopiedMarkName(b, OtherBucket)},
   {DeletionMarkName(b), CopiedMarkName(b, DestBucket)},
   {DeletionMarkName(b), CopiedMarkName(b, OtherBucket)}}

MarkerInits ==
  {[t \in Tenants |-> UNION {f[b] : b \in BlockSet(t)}] :
     f \in {g \in [BlockIDs -> UNION {MarkerStates(b) : b \in BlockIDs}] :
              \A b \in BlockIDs : g[b] \in MarkerStates(b)}}

\* The program starts with any setting of -dry-run, -min-block-duration and
\* -copy-period, on a bucket without markers.
Init ==
  \E c \in Flags({{}}, {{}}, BOOLEAN, {0, MinDuration}, {0, 1}) : InitWith(c, NoMarkers)

\* The program starts on a bucket where the markers directory of one tenant
\* holds markers (run once), or on a bucket without markers (run periodically).
InitMarkers ==
  \/ \E c \in Flags({{}}, {{}}, {FALSE}, {0}, {0}) :
       \E m \in {x \in MarkerInits : x["a"] = {} \/ x["b"] = {}} : InitWith(c, m)
  \/ \E c \in Flags({{}}, {{}}, {FALSE}, {0}, {1}) : InitWith(c, NoMarkers)

\* The program starts with any -enabled-users and -disabled-users (run once), or
\* with neither (run periodically).
InitUsers ==
  \/ \E c \in Flags(SUBSET Users, SUBSET Users, {FALSE}, {0}, {0}) : InitWith(c, NoMarkers)
  \/ \E c \in Flags({{}}, {{}}, {FALSE}, {0}, {1}) : InitWith(c, NoMarkers)

\* Names of other objects that the markers directory of a tenant may hold.
OtherNames ==
  {
   <<"0", "1">>, \* one part
   <<"0", "1", "-", "c", "o", "p", "i", "e", "d">>, \* two parts
   <<"0", "1", "-", "m", "o", "v", "e", "d", "-", "d", "-", "1">>, \* the middle part is not copied
   <<"0", "1", "-", "d", "e", "l", "e", "t", "i", "o", "n", "-", "m", "a", "r", "k", ".", "j", "s", "o", "n">>, \* a deletion mark
   <<"-", "c", "o", "p", "i", "e", "d", "-", "d", "-", "1">>, \* no block id
   <<"0", "-", "c", "o", "p", "i", "e", "d", "-", "d", "-", "1">>, \* a block id too short
   <<"0", "1", "2", "-", "c", "o", "p", "i", "e", "d", "-", "d", "-", "1">>, \* a block id too long
   <<"8", "1", "-", "c", "o", "p", "i", "e", "d", "-", "d", "-", "1">>, \* a block id that overflows
   <<"0", "U", "-", "c", "o", "p", "i", "e", "d", "-", "d", "-", "1">>, \* a character outside the alphabet
   <<".", "1", "-", "c", "o", "p", "i", "e", "d", "-", "d", "-", "1">>, \* a first character outside the alphabet
   <<"0", "a", "-", "c", "o", "p", "i", "e", "d", "-", "d", "-", "1">>, \* a lower-case block id
   <<"0", "A", "-", "c", "o", "p", "i", "e", "d", "-", "d", "-", "1">>  \* a block that is not listed
  }

\* Destination buckets: a name with a dash, a prefix of it, a name that begins
\* with a dash.
BucketNames == {DestBucket, OtherBucket, <<"-", "d">>}

\* The program starts for tenant "a" with any of the destination buckets, on a
\* bucket where the markers directory of "a" holds at most one object of
\* another name (run once), or on a bucket without markers (run periodically).
InitNames ==
  \/ \E c \in Flags({{"a"}}, {{}}, {FALSE}, {0}, {0}) :
       \E t \in BucketNames : \E m \in {{}} \cup {{n} : n \in OtherNames} :
         InitWith([c EXCEPT !.destBucket = t], [NoMarkers EXCEPT !["a"] = m])
  \/ \E c \in Flags({{}}, {{}}, {FALSE}, {0}, {1}) : InitWith(c, NoMarkers)

\* The program starts for tenant "b" with a negative, zero or positive
\* -copy-period, on a bucket without markers.
InitSched ==
  \E c \in Flags({{"b"}}, {{}}, {FALSE}, {0}, {-1, 0, 1}) : InitWith(c, NoMarkers)

Next ==
  \/ CopyBlocksStart
  \/ \E t \in Tenants : TenantStart(t)
  \/ \E t \in Tenants : \E b \in BlockSet(t) : BlockStart(t, b)
  \/ \E b \in BlockIDs : CopyList(b)
  \/ \E b \in BlockIDs : CopyObject(b)
  \/ \E b \in BlockIDs : uploadCopiedMarkerFile(b)
  \/ \E t \in Tenants : TenantFinish(t)
  \/ CopyBlocksFinish
  \/ Cancel
  \/ TickFire
  \/ LoopCheck
  \/ SelectTick
  \/ SelectDone
  \/ Restart

Spec == Init /\ [][Next]_vars
SpecMarkers == InitMarkers /\ [][Next]_vars
SpecUsers == InitUsers /\ [][Next]_vars
SpecNames == InitNames /\ [][Next]_vars

\* The steps of the program itself: every goroutine that can take a step takes
\* one in the end (the Go scheduler; an I/O call returns, with or without error).
ProgramStep ==
  \/ CopyBlocksStart
  \/ \E t \in Tenants : TenantStart(t)
  \/ \E t \in Tenants : \E b \in BlockSet(t) : BlockStart(t, b)
  \/ \E b \in BlockIDs : CopyList(b)
  \/ \E b \in BlockIDs : CopyObject(b)
  \/ \E b \in BlockIDs : uploadCopiedMarkerFile(b)
  \/ \E t \in Tenants : TenantFinish(t)
  \/ CopyBlocksFinish
  \/ LoopCheck
  \/ SelectTick
  \/ SelectDone

\* The program keeps running and the ticker keeps firing; signals and new
\* invocations may or may not come.
SpecSched == InitSched /\ [][Next]_vars /\ WF_vars(ProgramStep) /\ WF_vars(TickFire)

\* ------------------------------------------------------------------ claims

\* copySingleBlock returned nil for block b in the current cycle.
CopyReturnedNil(b) == bst[b].pc = "mark" \/ bst[b].out \in {"ok", "markErr"}

\* Every object of block b is in the destination bucket.
AllInDest(b) == \A o \in ObjectsOf(b) : <<TenantOf(b), b, o>> \in dst

\* The copy marker of block b for the destination bucket exists.
MarkerExists(b) == CopiedMarkName(b, cfg.destBucket) \in srcMarkers[TenantOf(b)]

\* copyBlocks has returned and main has not started another cycle.
CycleEnded == cyc = "idle" /\ result # "none"

\* C1: when copySingleBlock returns nil for a block whose listing holds
\* meta.json, meta.json is the last object it copied, wherever meta.json stood in
\* the listing.
C1_MetaCopiedLast ==
  \A b \in BlockIDs :
    CopyReturnedNil(b) /\ MetaFilename \in Range(CopiedNow(b))
      => CopiedNow(b)[Len(CopiedNow(b))] = MetaFilename

\* C2: in every state of the destination bucket, a block whose meta.json is
\* there has all its other objects there too.
C2_PartialCopyVisibility ==
  \A b \in BlockIDs :
    <<TenantOf(b), b, MetaFilename>> \in dst => AllInDest(b)

\* C3: a block that the cycle before this one copied completely and marked
\* (its unit ended "ok") is skipped by this cycle at the copied check: nothing of
\* it is listed or copied and no marker is written for it.
C3_Idempotent ==
  \A b \in BlockIDs :
    prev[b] = "ok"
      => /\ bst[b].pc \in {"idle", "queued", "done"}
         /\ bst[b].out \in {"none", "copied"}
         /\ CopiedNow(b) = <<>>

\* A second cycle has skipped, as already copied, a block that the first cycle
\* copied and marked.
C3_Witness ==
  \E b \in BlockIDs : prev[b] = "ok" /\ bst[b].out = "copied" /\ ncycles = 2

\* Block y ended the way an eligible block whose own operations succeed must:
\* it was copied completely and its marker exists.
CopiedAndMarked(y) == bst[y].out = "ok" /\ AllInDest(y) /\ MarkerExists(y)

\* How a block unit ends when it is not eligible or one of its own operations
\* fails.
SkipOuts == {"copied", "deletion", "short", "dry"}

\* C4: at the end of a cycle that was not cancelled, when the copy or the marker
\* write of a block x failed, every other block y of a tenant whose listings
\* succeeded has been processed: it was skipped as not eligible, or one of its
\* own operations failed, or it is copied completely and marked.
C4_FailureIsolation ==
  CycleEnded /\ result # "ctx" /\ ~ctxDone
    => \A x, y \in BlockIDs :
         /\ bst[x].out \in {"listErr", "copyErr", "markErr"}
         /\ y # x
         /\ tst[TenantOf(y)] \in {"ok", "blocksErr"}
         => /\ bst[y].pc = "done"
            /\ bst[y].out \notin SkipOuts \cup ErrOuts => CopiedAndMarked(y)

\* A cycle ended in which the copy of one block of tenant "a" failed while the
\* other block of "a" and the block of tenant "b" are copied and marked.
C4_Witness ==
  /\ CycleEnded /\ ~ctxDone
  /\ \E x, y \in BlockSet("a") :
       x # y /\ bst[x].out = "copyErr" /\ CopiedAndMarked(y)
  /\ \A z \in BlockSet("b") : CopiedAndMarked(z)

\* A tenant function or a block function returned an error in this cycle.
AnyUnitFailed == TenantFailed \/ \E b \in BlockIDs : bst[b].out \in ErrOuts

C6_MarkerFailureRecovery ==
  \A b \in BlockIDs :
    /\ bst[b].out = "markErr" =>
         /\ AllInDest(b) /\ ~MarkerExists(b)
         /\ tst[TenantOf(b)] \in {"blocks", "blocksErr"}
         /\ CycleEnded => result \in {"units", "ctx"}
    /\ bst[b].out = "ok" => MarkerExists(b)
    /\ prev[b] = "markErr" =>
         /\ bst[b].out # "copied"
         /\ bst[b].pc = "done" /\ ~cfg.dryRun /\ faults = 1 /\ ~ctxDone =>
              /\ bst[b].out = "ok"
              /\ Range(CopiedNow(b)) = ObjectsOf(b)
              /\ MarkerExists(b)

\* The cycle after a failed marker write has copied the block again and marked
\* it.
C6_Witness ==
  \E b \in BlockIDs :
    /\ prev[b] = "markErr" /\ bst[b].out = "ok"
    /\ Range(CopiedNow(b)) = ObjectsOf(b) /\ MarkerExists(b)

\* C7: while -dry-run is set no step writes to the destination bucket or writes
\* a marker; and a block that a dry-run cycle reported as to be copied is, in a
\* following cycle without dry-run (and without failure or signal), copied and
\* marked.
C7_DryRun ==
  /\ [][cfg.dryRun => dst' = dst /\ srcMarkers' = srcMarkers]_vars
  /\ [](\A b \in BlockIDs :
          prev[b] = "dry" /\ ~cfg.dryRun /\ bst[b].pc = "done" /\ faults = 0
            => CopiedAndMarked(b))

\* After a dry-run cycle that reported a block, a cycle without dry-run has
\* copied and marked it.
C7_Witness ==
  \E b \in BlockIDs : prev[b] = "dry" /\ ~cfg.dryRun /\ CopiedAndMarked(b)

\* C8: no step removes a marker object, and a step that adds one adds the copy
\* marker of one block for the configured destination, taken by the unit of
\* that block after its copySingleBlock copied every listed object without
\* error (so every object of the block is in the destination); the marker is
\* not an existing one written again.
C8_MarkersAppendOnly ==
  [][\A t \in Tenants :
       /\ srcMarkers[t] \subseteq srcMarkers'[t]
       /\ \A n \in srcMarkers'[t] \ srcMarkers[t] :
            \E b \in BlockSet(t) :
              /\ n = CopiedMarkName(b, cfg.destBucket)
              /\ bst[b].pc = "mark" /\ bst'[b].out = "ok"
              /\ Range(CopiedNow(b)) = ObjectsOf(b)
              /\ AllInDest(b)]_vars

\* A block that already had a deletion mark or a copy marker for another bucket
\* has been copied and marked, and the older marker is still there.
C8_Witness ==
  \E b \in BlockIDs :
    /\ CopiedAndMarked(b)
    /\ \/ CopiedMarkName(b, OtherBucket) \in srcMarkers[TenantOf(b)]
       \/ \E y \in BlockSet(TenantOf(b)) : DeletionMarkName(y) \in srcMarkers[TenantOf(b)]

\* C9: a block whose copy marker for the configured destination and whose
\* deletion mark both exist ends as "copied"; and, with the flags of any cycle
\* (they are fixed when the cycle starts), the decision is "copied" for the two
\* orders in which the listing can return the two markers.
C9_CopiedBeforeDeletion ==
  \A b \in BlockIDs :
    /\ /\ bst[b].pc = "done"
       /\ DeletionMarkName(b) \in srcMarkers[TenantOf(b)]
       /\ MarkerExists(b)
       => bst[b].out = "copied"
    /\ cyc = "start" =>
         \A listing \in Orders({DeletionMarkName(b), CopiedMarkName(b, cfg.destBucket)}) :
           LET markers == listBlockMarkersForTenant(listing, cfg.destBucket)
           IN /\ MarkersGet(markers, b) = [deletion |-> TRUE, copied |-> TRUE]
              /\ BlockDecision(MarkersGet(markers, b), cfg, loadMetaJSONFile(b, "ok"))
                   = "copied"

\* A block with both markers has been skipped as copied, and nothing of it is
\* in the destination.
C9_Witness ==
  \E b \in BlockIDs :
    /\ bst[b].pc = "done" /\ bst[b].out = "copied"
    /\ DeletionMarkName(b) \in srcMarkers[TenantOf(b)]
    /\ MarkerExists(b)
    /\ \A o \in ObjectsOf(b) : <<TenantOf(b), b, o>> \notin dst

\* The condition of C10 on tenant t.
Allowed(t) ==
  /\ cfg.enabledUsers = {} \/ t \in cfg.enabledUsers
  /\ cfg.disabledUsers = {} \/ t \notin cfg.disabledUsers

\* C10: a tenant taken by a worker is processed exactly when the enabled set is
\* empty or contains it and the disabled set is empty or does not contain it (so
\* a tenant in both sets is excluded); for an excluded tenant nothing is listed,
\* nothing is copied, no marker is written and no error is recorded; when no
\* tenant is allowed the cycle has no failed unit; and when a cycle succeeds the
\* blocks of every allowed tenant have been processed.
C10_AllowDeny ==
  /\ \A t \in Tenants :
       /\ tst[t] \notin {"idle", "queued"} => (tst[t] # "excluded" <=> Allowed(t))
       /\ t \in cfg.enabledUsers \cap cfg.disabledUsers => ~Allowed(t)
       /\ ~Allowed(t) =>
            /\ tst[t] \notin TenantErrs
            /\ mk[t] = <<>> /\ bq[t] = <<>>
            /\ srcMarkers[t] = {}
            /\ \A b \in BlockSet(t) :
                 /\ bst[b] = IdleBlock
                 /\ \A o \in ObjectsOf(b) : <<t, b, o>> \notin dst
       /\ CycleEnded /\ result = "nil" /\ Allowed(t) =>
            /\ tst[t] = "ok"
            /\ \A b \in BlockSet(t) :
                 /\ bst[b].pc = "done"
                 /\ bst[b].out \in {"ok", "copied"} => AllInDest(b) /\ MarkerExists(b)
  /\ CycleEnded /\ (\A t \in Tenants : ~Allowed(t)) => result # "units"

\* With enabled = {a, b} and disabled = {b} the cycle has ended: a was processed
\* and its blocks are copied and marked, b and c were excluded.
C10_Witness ==
  /\ cfg.enabledUsers = {"a", "b"} /\ cfg.disabledUsers = {"b"}
  /\ CycleEnded /\ result = "nil"
  /\ tst["a"] = "ok" /\ tst["b"] = "excluded" /\ tst["c"] = "excluded"
  /\ \A b \in BlockSet("a") : CopiedAndMarked(b)

\* markers[blockID] as the block function of tenant TenantOf(b) sees it.
MarkersOf(b) == MarkersGet(mk[TenantOf(b)], UlidParse(b).id)

\* The block function of b has run past the marker checks without returning.
Unmarked(b) ==
  /\ bst[b].pc \notin {"idle", "queued"}
  /\ ~MarkersOf(b).copied /\ ~MarkersOf(b).deletion

\* C11: with a minimum duration above zero, a block without copied or deletion
\* marker (whose unit did not end with the error of the metadata read) is
\* skipped for its duration exactly when maxTime - minTime of its meta.json is
\* strictly smaller than the minimum; with a minimum of zero or less no block is
\* skipped for its duration and meta.json is not read.
C11_MinDuration ==
  \A b \in BlockIDs :
    Unmarked(b) /\ bst[b].out # "metaErr" =>
      IF cfg.minBlockDuration > 0
      THEN bst[b].out = "short" <=> DurationOf(b) < cfg.minBlockDuration
      ELSE bst[b].out # "short" /\ bst[b].meta = "none"

\* The name has the shape id-copied-bucket: three parts when cut at the first
\* two dashes, the middle one "copied", the first one (after its directories) a
\* valid block id.
CopiedShape(name) ==
  LET parts == SplitN(name, "-", 3)
  IN /\ Len(parts) = 3
     /\ parts[2] = CopiedMarkFilename
     /\ UlidValid(Base(parts[1]))

\* C12: for every block and the destination bucket, the name made by
\* CopiedToBucketMarkFilename, as written and as the listing of the markers
\* directory returns it, is parsed by IsCopiedToBucketMarkFilename to (true, the
\* block, the bucket); and every object name that listBlockMarkersForTenant
\* found in a markers directory and that does not have the shape
\* id-copied-bucket is parsed to false.
C12_MarkerNameRoundTrip ==
  /\ \A b \in BlockIDs :
       LET name == CopiedToBucketMarkFilename(UlidParse(b).id, cfg.destBucket)
           want == [ok |-> TRUE, id |-> b, bucket |-> cfg.destBucket]
       IN /\ IsCopiedToBucketMarkFilename(name) = want
          /\ IsCopiedToBucketMarkFilename(TrimMarkersPrefix(name)) = want
  /\ \A t \in Tenants : \A name \in srcMarkers[t] :
       tst[t] \notin {"idle", "queued"} /\ ~CopiedShape(name)
         => ~IsCopiedToBucketMarkFilename(name).ok

\* The step starts a cycle (runCopy is called).
StartsCycle == ncycles' = ncycles + 1

\* The step is a new invocation of the program after it exited.
NewInvocation == mainPc \in {"exit0", "exit1"} /\ mainPc' = "first"

C15_CancelStopsScheduling ==
  /\ [][ctxDone => ~StartsCycle]_vars
  /\ (cfg.copyPeriod > 0 /\ ctxDone) ~> (mainPc = "stopped")

\* The objects of tenant t in destination bucket d.
DestOf(d, t) == {x \in d : x[1] = t}

\* How the unit of a tenant ends when one of its two listings fails.
ListErrs == {"listBlocksErr", "listMarkersErr"}

\* C16: when listing the blocks or the markers of tenant t failed, no block unit
\* of t has started in this cycle, and for the rest of the cycle no object of t
\* is copied and no marker of t is written; the cycle returns an error; in a
\* cycle that was not cancelled every other tenant has been processed, with all
\* its blocks.  When listing the tenants failed, the cycle has failed and no
\* tenant and no block was processed.
C16_TenantFailurePropagation ==
  /\ [](\A t \in Tenants :
          tst[t] \in ListErrs =>
            /\ \A b \in BlockSet(t) : bst[b] = IdleBlock
            /\ CycleEnded => result \in {"units", "ctx"}
            /\ CycleEnded /\ ~ctxDone =>
                 \A u \in Tenants \ {t} :
                   /\ tst[u] \notin {"idle", "queued", "blocks"}
                   /\ tst[u] \notin ListErrs =>
                        \A b \in BlockSet(u) : bst[b].pc = "done")
  /\ [][\A t \in Tenants :
          tst[t] \in ListErrs /\ tst'[t] = tst[t] =>
            srcMarkers'[t] = srcMarkers[t] /\ DestOf(dst', t) = DestOf(dst, t)]_vars
  /\ [](result = "tenants" =>
          /\ CycleEnded
          /\ \A t \in Tenants : tst[t] = "idle"
          /\ \A b \in BlockIDs : bst[b] = IdleBlock)

\* The marker listing of tenant "a" failed; the cycle ended with an error, and
\* the block of tenant "b" is copied and marked.
C16_Witness ==
  /\ CycleEnded /\ ~ctxDone /\ result = "units"
  /\ tst["a"] = "listMarkersErr" /\ tst["b"] = "ok" /\ tst["c"] = "ok"
  /\ DestOf(dst, "a") = {}
  /\ \A z \in BlockSet("b") : CopiedAndMarked(z)

\* The objects of block b in destination bucket d.
DestOfBlock(d, b) == {x \in d : x[2] = b}

\* C17: when the copy of an object of a block failed, the unit of the block has
\* ended with that error (and the cycle returns an error); the objects before
\* the failed one in the copy order are in the destination, and in a first
\* cycle the failed one and those after it are not; no marker exists for the
\* block; and for the rest of the cycle nothing of the block is copied or
\* removed and no marker is written for it.
C17_AbortOnFirstFailure ==
  /\ [](\A b \in BlockIDs :
          bst[b].out = "copyErr" =>
            /\ bst[b].pc = "done"
            /\ bst[b].ix \in 1..Len(bst[b].paths)
            /\ \A i \in 1..(bst[b].ix - 1) : <<TenantOf(b), b, bst[b].paths[i]>> \in dst
            /\ ncycles = 1 =>
                 \A i \in bst[b].ix..Len(bst[b].paths) :
                   <<TenantOf(b), b, bst[b].paths[i]>> \notin dst
            /\ ~MarkerExists(b)
            /\ CycleEnded => result \in {"units", "ctx"})
  /\ [][\A b \in BlockIDs :
          bst[b].out = "copyErr" /\ bst'[b].out = "copyErr" =>
            /\ bst'[b] = bst[b]
            /\ DestOfBlock(dst', b) = DestOfBlock(dst, b)
            /\ ~MarkerExists(b)']_vars

\* The copy of a block failed at an object that is neither the first nor the
\* last: the objects before it are in the destination, the others are not, and
\* the cycle has ended.
C17_Witness ==
  \E b \in BlockIDs :
    /\ CycleEnded /\ ncycles = 1
    /\ bst[b].out = "copyErr"
    /\ bst[b].ix > 1 /\ bst[b].ix < Len(bst[b].paths)
    /\ DestOfBlock(dst, b) =
         {<<TenantOf(b), b, bst[b].paths[i]>> : i \in 1..(bst[b].ix - 1)}

\* C18: when reading meta.json of a block failed (NewReader, Decode or Close
\* returned an error), the unit of the block has ended with that error, with
\* nothing of the block copied and no marker for it, with or without -dry-run,
\* and the cycle returns an error; and meta.json is read only with a minimum
\* duration above zero and for a block without copied or deletion marker.
C18_MetaReadFailure ==
  \A b \in BlockIDs :
    /\ bst[b].meta \in {"readErr", "closeErr"} =>
         /\ bst[b].pc = "done" /\ bst[b].out = "metaErr"
         /\ CopiedNow(b) = <<>>
         /\ ~MarkerExists(b)
         /\ CycleEnded => result \in {"units", "ctx"}
    /\ bst[b].meta # "none" =>
         /\ cfg.minBlockDuration > 0
         /\ ~MarkersOf(b).copied /\ ~MarkersOf(b).deletion

\* C19: when the tenant function of t has listed the markers, for every block of
\* t the copied flag is set exactly when the markers directory holds the copy
\* marker of the block for the configured destination bucket, and the deletion
\* flag exactly when it holds the deletion mark of the block, each whatever the
\* other; the map has no entry with a flag set for anything else.  So a block
\* that ends as "copied" has its marker for the destination bucket, whatever
\* markers for other buckets there are.
C19_DestinationMatch ==
  /\ [][\A t \in Tenants :
          tst[t] = "queued" /\ tst'[t] \in {"blocks", "ok"} =>
            /\ \A b \in BlockSet(t) :
                 /\ MarkersGet(mk'[t], b).copied
                      <=> CopiedMarkName(b, cfg.destBucket) \in srcMarkers[t]
                 /\ MarkersGet(mk'[t], b).deletion
                      <=> DeletionMarkName(b) \in srcMarkers[t]
            /\ \A id \in DOMAIN mk'[t] :
                 /\ id \in BlockSet(t)
                 /\ mk'[t][id].copied \/ mk'[t][id].deletion]_vars
  /\ [](\A b \in BlockIDs : bst[b].out = "copied" => MarkerExists(b))

\* Of the two blocks of a tenant, the one with a copy marker for another bucket
\* only was not flagged and is now copied and marked for the destination, and
\* the one with the marker for the destination was flagged and skipped.
C19_Witness ==
  \E x, y \in BlockSet("a") :
    /\ CopiedMarkName(x, OtherBucket) \in srcMarkers["a"]
    /\ ~MarkersGet(mk["a"], x).copied /\ ~MarkersGet(mk["a"], x).deletion
    /\ CopiedAndMarked(x)
    /\ MarkersGet(mk["a"], y).copied /\ bst[y].out = "copied"
    /\ DestOfBlock(dst, y) = {}

\* The minimum-duration rule applies to block b: a minimum is set and the
\* duration in the block's meta.json is below it.
TooShort(b) == cfg.minBlockDuration > 0 /\ DurationOf(b) < cfg.minBlockDuration

\* Sequence p holds the elements of sequence q, each as often.
IsPermutation(p, q) ==
  /\ Len(p) = Len(q)
  /\ \A x \in Range(p) \cup Range(q) :
       Cardinality({i \in 1..Len(p) : p[i] = x}) = Cardinality({i \in 1..Len(q) : q[i] = x})

\* C20: when a cycle without -dry-run that was not cancelled returned no error,
\* then for every allowed tenant and every block of it that has no copied or
\* deletion marker and to which the minimum-duration rule does not apply, the
\* copy order was a permutation of the block's listing, every object of the
\* block is in the destination, and the copy marker for the destination exists.
C20_SuccessfulCycleComplete ==
  CycleEnded /\ result = "nil" /\ ~cfg.dryRun /\ ~ctxDone =>
    \A t \in Tenants : \A b \in BlockSet(t) :
      /\ Allowed(t)
      /\ ~MarkersOf(b).copied /\ ~MarkersOf(b).deletion
      /\ ~TooShort(b)
      => /\ IsPermutation(bst[b].paths, ListingOf(b))
         /\ AllInDest(b)
         /\ MarkerExists(b)

====
